---------------------------- MODULE Spec2Model ----------------------------
(***************************************************************************)
(* The recursive-descent parser of cytosol-parser/src/parser.rs as a       *)
(* pushdown machine.  The token source is an iterator pulled lazily        *)
(* through a Peekable; every parser function that calls another parser     *)
(* function is a frame on stack, and   every action is one basic block of  *)
(* one function: at most one token is inspected per action.                *)
(***************************************************************************)
EXTENDS Integers, Sequences, FiniteSets, TLC

VARIABLES
    lexer,      \* the token source: the kinds it yields and the length it ends at
    file,       \* Parser.file: the FileId given to parse_file
    toks,       \* the tokens the iterator has yielded so far
    ended,      \* the iterator has yielded None (Peekable caches it)
    pos,        \* number of tokens taken by Parser::next
    stack,      \* the call stack of parser functions, innermost last
    ret,        \* the value the last returning function handed to its caller
    outcome,    \* what parse_file returned: None while it runs
    raised,     \* history: the first error value built, and pos at that time
    log         \* history: every function return and every top-level item

vars == <<lexer, file, toks, ended, pos, stack, ret, outcome, raised, log>>

(***************************** bounds **************************************)
\* Longest token sequence over all token kinds.
MaxToks == 7
\* Longest token sequence of record and extern items with their field lists.
MaxListToks == 12
\* Longest token sequence of genes with a guard of identifiers, integers,
\* parentheses and the infix operators.
MaxExprToks == 9
\* Longest token sequence of items without fields, bindings and guards.
MaxItemToks == 13
\* Longest token sequence of rules with bindings and products.
MaxRuleToks == 11
\* Longest token sequence of genes with a guard and call and express statements.
MaxGeneToks == 13
\* Longest token sequence of genes with a guard of field accesses, negations
\* and parentheses.
MaxAtomToks == 12

(************************ Option and Result ********************************)
None == [tag |-> "None"]
Some(v) == [tag |-> "Some", val |-> v]
Ok(v) == [tag |-> "Ok", val |-> v]
Err(e) == [tag |-> "Err", err |-> e]
Panic == [tag |-> "Panic"]

(***************************** spans ***************************************)
\* FC: a file-tagged source range.
FC(f, lo, hi) == [file |-> f, lo |-> lo, hi |-> hi]

Min(a, b) == IF a <= b THEN a ELSE b
Max(a, b) == IF a >= b THEN a ELSE b

\* FC::merge: the smallest range covering both.
merge(a, b) == [file |-> a.file, lo |-> Min(a.lo, b.lo), hi |-> Max(a.hi, b.hi)]

(***************************** tokens **************************************)
Keywords == {"Record", "Extern", "Gene", "Rule", "When", "Call", "Express", "Nothing"}
Punctuation == {"ParenOpen", "ParenClose", "BraceOpen", "BraceClose", "BracketOpen",
                "BracketClose", "Comma", "Colon", "Dot", "ArrowR"}
InfixKinds == {"OpPlus", "OpMinus", "OpStar", "OpSlash", "OpEquals", "OpNotEquals",
               "OpLessThan", "OpLessThanEqual", "OpGreaterThan", "OpGreaterThanEqual"}
LiteralKinds == {"IntegerLiteral", "StringLiteral", "Identifier"}
TokenKinds == Keywords \cup Punctuation \cup InfixKinds \cup LiteralKinds

\* The token sources: every sequence of at most len tokens of the kinds.
AllTokens == [kinds |-> TokenKinds, len |-> MaxToks]
ListTokens ==
    [kinds |-> {"Record", "Extern", "Identifier", "ParenOpen", "ParenClose", "Comma", "Colon"},
     len |-> MaxListToks]
ExprTokens ==
    [kinds |-> {"Gene", "ParenOpen", "ParenClose", "When", "BraceOpen", "Identifier",
                "IntegerLiteral"} \cup InfixKinds,
     len |-> MaxExprToks]
ItemTokens ==
    [kinds |-> {"Record", "Extern", "Gene", "Rule", "Identifier", "ParenOpen", "ParenClose",
                "BraceOpen", "BraceClose", "ArrowR", "Nothing"},
     len |-> MaxItemToks]
RuleTokens ==
    [kinds |-> {"Rule", "ParenOpen", "ParenClose", "ArrowR", "Nothing", "Identifier",
                "IntegerLiteral", "OpPlus", "Colon", "Comma", "When"},
     len |-> MaxRuleToks]
GeneTokens ==
    [kinds |-> {"Gene", "ParenOpen", "ParenClose", "BraceOpen", "BraceClose", "Call", "Express",
                "Identifier", "Colon", "Comma", "When"},
     len |-> MaxGeneToks]
AtomTokens ==
    [kinds |-> {"Gene", "ParenOpen", "ParenClose", "When", "Identifier", "Dot", "OpMinus"},
     len |-> MaxAtomToks]
Lexers == {AllTokens, ListTokens, ExprTokens, ItemTokens, RuleTokens, GeneTokens, AtomTokens}

\* The text of the identifier, the value of the integer and the text of the
\* string the lexer puts at position i.  The parser never inspects a payload,
\* so one payload per position and kind, different at every position, tells
\* every token from every other.
IdentAt(i) == <<"a", "b", "c", "d", "e", "f", "g", "h", "i", "j", "k", "l", "m", "n", "o", "p",
                "q", "r", "s", "t", "u", "v", "w", "x", "y", "z">>[i]
StrAt(i) == <<"s1", "s2", "s3", "s4", "s5", "s6", "s7", "s8", "s9", "s10", "s11", "s12", "s13",
              "s14", "s15", "s16", "s17", "s18", "s19", "s20", "s21", "s22", "s23", "s24",
              "s25", "s26">>[i]
IntAt(i) == i - 1

\* Token { kind, fc } as the lexer yields it at position i of file f.
Token(f, i, k) ==
    CASE k = "Identifier" -> [kind |-> k, fc |-> FC(f, i, i), name |-> IdentAt(i)]
      [] k = "IntegerLiteral" -> [kind |-> k, fc |-> FC(f, i, i), int |-> IntAt(i)]
      [] k = "StringLiteral" -> [kind |-> k, fc |-> FC(f, i, i), str |-> StrAt(i)]
      [] OTHER -> [kind |-> k, fc |-> FC(f, i, i)]

(************************** error contexts *********************************)
\* A TLA+ string cannot hold a backquote: the source's "`(`" is written "'('".
CTX == [start |-> None, while_parsing |-> "", expected |-> None]
start(ec, fc, reference_desc) == [ec EXCEPT !.start = Some([fc |-> fc, desc |-> reference_desc])]
while_parsing(ec, w) == [ec EXCEPT !.while_parsing = w]
expected(ec, e) == [ec EXCEPT !.expected = Some(e)]

UnexpectedToken(fc, ctx) == [kind |-> "UnexpectedToken", fc |-> fc, ctx |-> ctx]
UnexpectedEnd(f, ctx) == [kind |-> "UnexpectedEnd", file |-> f, ctx |-> ctx]

(***************************** AST *****************************************)
Identifier(fc, name) == [fc |-> fc, name |-> name]
Named(id) == [tag |-> "Named", id |-> id]
EmptyFile == [records |-> <<>>, externs |-> <<>>, genes |-> <<>>, rules |-> <<>>]

\* Expression
Variable(id) == [tag |-> "Variable", id |-> id]
IntegerLiteral(fc, i) == [tag |-> "Literal", lit |-> [tag |-> "Integer", fc |-> fc, int |-> i]]
StringLiteral(fc, s) == [tag |-> "Literal", lit |-> [tag |-> "String", fc |-> fc, str |-> s]]
InfixOp(op, lhs, rhs) == [tag |-> "InfixOp", op |-> op, args |-> <<lhs, rhs>>]
PrefixOp(op, e) == [tag |-> "PrefixOp", op |-> op, expr |-> e]
Concentration(name) == [tag |-> "Concentration", name |-> name]
FieldAccess(base, field_name) == [tag |-> "FieldAccess", base |-> base, field_name |-> field_name]

\* HasFC::fc of an Expression: the merge of the spans its parts carry.
RECURSIVE ExpressionFC(_)
ExpressionFC(e) ==
    CASE e.tag = "Variable" -> e.id.fc
      [] e.tag = "Literal" -> e.lit.fc
      [] e.tag = "InfixOp" -> merge(ExpressionFC(e.args[1]), ExpressionFC(e.args[2]))
      [] e.tag = "PrefixOp" -> merge(e.op.fc, ExpressionFC(e.expr))
      [] e.tag = "Concentration" -> e.name.fc
      [] e.tag = "FieldAccess" -> merge(ExpressionFC(e.base), e.field_name.fc)

(***************************** cursor **************************************)
\* Peekable::peek: the buffered token, the cached end, or a pull of the
\* iterator, which yields any token or ends.
PeekChoices ==
    IF Len(toks) > pos THEN {Some(toks[pos + 1])}
    ELSE IF ended \/ Len(toks) >= lexer.len THEN {None}
    ELSE {Some(Token(file, Len(toks) + 1, k)) : k \in lexer.kinds} \cup {None}

\* A cursor that leaves the token it was to consume in place.
Cursor_stuck(t, c) ==
    /\ toks' = IF t.tag = "Some" /\ Len(toks) = pos THEN Append(toks, t.val) ELSE toks
    /\ ended' = (ended \/ t.tag = "None")
    /\ pos' = pos

\* The Peekable after peek returned t and next was called c times (0 or 1).
Cursor(t, c) ==
    /\ toks' = IF t.tag = "Some" /\ Len(toks) = pos THEN Append(toks, t.val) ELSE toks
    /\ ended' = (ended \/ t.tag = "None")
    /\ pos' = pos + c

\* A peek_kind that also holds at the end of the input.
peek_kind_or_end(t, k) == IF t.tag = "Some" THEN t.val.kind = k ELSE TRUE

\* Parser::peek_kind
peek_kind(t, k) == IF t.tag = "Some" THEN t.val.kind = k ELSE FALSE

(********************** ExpectRet and Parser::expect ***********************)
\* A conversion that reports the token in front of the one it was given.
into_result_bool_previous(b, context, fc) ==
    IF b THEN Ok(<<>>) ELSE Err(UnexpectedToken(FC(fc.file, fc.lo - 1, fc.hi - 1), context))

into_result_bool(b, context, fc) == IF b THEN Ok(<<>>) ELSE Err(UnexpectedToken(fc, context))
into_result_option(o, context, fc) ==
    IF o.tag = "Some" THEN Ok(o.val) ELSE Err(UnexpectedToken(fc, context))
into_result_result(r, context, fc) == r

\* An expect that reports the end of the input as an unexpected token at the
\* last position.
expect_end_as_token(context, t, r) ==
    IF t.tag = "Some" THEN r ELSE Err(UnexpectedToken(FC(file, pos, pos), context))

\* Parser::expect on the peeked token t, with r = f(tok).into_result(context,
\* tok.fc) already evaluated for a present token.  The caller consumes the
\* token exactly when the result is Ok.
expect(context, t, r) ==
    IF t.tag = "Some" THEN r ELSE Err(UnexpectedEnd(file, context))

\* Parser::expect_tok_and_fc for a boolean matcher.
expect_tok_and_fc_bool(context, t, k) ==
    expect(context, t,
        IF t.tag = "Some"
        THEN LET r == into_result_bool(t.val.kind = k, context, t.val.fc)
             IN into_result_result(
                    IF r.tag = "Ok" THEN Ok(<<t.val.fc, r.val>>) ELSE r, context, t.val.fc)
        ELSE None)

\* A caller that puts its own context into the error it hands on.
question_mark_rewrap(r) == Err([r.err EXCEPT !.ctx = CTX])

\* The ? operator: an Err from the callee is returned as it is.
question_mark(r) == r

\* Parser::parse_identifier
parse_identifier(parent_error_context, t) ==
    LET ctx == expected(parent_error_context, "an identifier")
        r == expect(ctx, t,
               IF t.tag = "Some"
               THEN LET o == IF t.val.kind = "Identifier" THEN Some(t.val.name) ELSE None
                        q == into_result_option(o, ctx, t.val.fc)
                    IN into_result_result(
                           IF q.tag = "Ok" THEN Ok(<<t.val.fc, q.val>>) ELSE q, ctx, t.val.fc)
               ELSE None)
    IN IF r.tag = "Ok" THEN Ok(Identifier(r.val[1], r.val[2])) ELSE question_mark(r)

\* Parser::parse_type
parse_type(pec, t) ==
    LET r == parse_identifier(while_parsing(pec, "a type"), t)
    IN IF r.tag = "Ok" THEN Ok(Named(r.val)) ELSE question_mark(r)

(************************** control ****************************************)
Top == stack[Len(stack)]
Rest == SubSeq(stack, 1, Len(stack) - 1)
Running == outcome = None /\ stack # <<>>
At(fn, pc) == Running /\ Top.fn = fn /\ Top.pc = pc

NoLog == UNCHANGED <<log, raised, outcome>>

\* Continue in the same function.
Goto(f) ==
    /\ stack' = Append(Rest, f)
    /\ ret' = None

\* Call a parser function: the caller's frame f waits under the callee's.
Call(f, callee) ==
    /\ stack' = Append(Append(Rest, f), [callee EXCEPT !.p0 = pos'])
    /\ ret' = None

\* Return r to the caller after c tokens were consumed in this step; the
\* outermost return is parse_file's.
Return(r, c) ==
    /\ stack' = Rest
    /\ ret' = r
    /\ outcome' = IF Len(stack) = 1 THEN Some(r) ELSE outcome
    /\ raised' = IF r.tag = "Err" /\ raised = None
                 THEN Some([err |-> r.err, at |-> pos + c]) ELSE raised
    /\ log' = Append(log, [fn |-> Top.fn, from |-> Top.p0, to |-> pos + c, res |-> r])

Propagate ==
    /\ Running
    /\ ret.tag = "Err"
    /\ UNCHANGED <<lexer, file, toks, ended, pos>>
    /\ Return(question_mark(ret), 0)

\* unwrap() of None
Panics ==
    /\ outcome' = Panic
    /\ UNCHANGED <<stack, ret, raised, log>>

(************************** frames *****************************************)
FileFrame ==
    [fn |-> "parse_file", pc |-> "loop", p0 |-> 0, file |-> EmptyFile, start_tok |-> None,
     ec |-> CTX, name |-> None, factors |-> <<>>, when |-> None, product_fc |-> None,
     products |-> <<>>]

GroupedSeparatedFrame(delim, delim_start_context, separator, separator_or_delim_end_context, f) ==
    [fn |-> "grouped_separated", pc |-> "open", p0 |-> 0, delim |-> delim,
     delim_start_context |-> delim_start_context, separator |-> separator,
     separator_or_delim_end_context |-> separator_or_delim_end_context, f |-> f,
     vals |-> <<>>, start_fc |-> None]

\* the closures |s| { ident : type } of the record and extern arms
FieldClosure(ec, ident_desc, colon_desc) ==
    [fn |-> "field_closure", pc |-> "ident", p0 |-> 0, ec |-> ec, ident_desc |-> ident_desc,
     colon_desc |-> colon_desc, ident |-> None, colon_fc |-> None]

GroupedFrame(delim, start_delim_context, f) ==
    [fn |-> "grouped", pc |-> "open", p0 |-> 0, delim |-> delim,
     start_delim_context |-> start_delim_context, f |-> f, vals |-> <<>>, start_fc |-> None]

SeparatedFrame(sep, context, f) ==
    [fn |-> "separated", pc |-> "start", p0 |-> 0, sep |-> sep, context |-> context, f |-> f,
     vals |-> <<>>, start_fc |-> None]

\* the closures |s| { name : expression } of call statements and products
ArgumentClosure(ec, desc) ==
    [fn |-> "argument_closure", pc |-> "ident", p0 |-> 0, ec |-> ec, desc |-> desc,
     name |-> None]

BindingFrame(pec) ==
    [fn |-> "parse_binding", pc |-> "start", p0 |-> 0, pec |-> pec, ec |-> CTX,
     start_fc |-> None, attr |-> None, id |-> None]

GeneStatementFrame(pec) ==
    [fn |-> "parse_gene_statement", pc |-> "start", p0 |-> 0, pec |-> pec, ec |-> CTX,
     tok |-> None, name |-> None]

ProductListFrame(pec) ==
    [fn |-> "parse_product_list", pc |-> "start", p0 |-> 0, pec |-> pec]

ProductFrame(pec) ==
    [fn |-> "parse_product", pc |-> "start", p0 |-> 0, pec |-> pec, quantity |-> None,
     name |-> None]

ExpressionFrame(pec) ==
    [fn |-> "parse_expression", pc |-> "start", p0 |-> 0, pec |-> pec, expr |-> None,
     op |-> None]

ExpressionAtomFrame(pec) ==
    [fn |-> "parse_expression_atom", pc |-> "start", p0 |-> 0, pec |-> pec, expr |-> None,
     tok |-> None, name |-> None]

(************************** parse_file *************************************)
\* A top-level error that takes the offending token as its start reference.
top_level_error_with_start(t) ==
    Err(UnexpectedToken(t.fc, expected(while_parsing(start(CTX, t.fc, "top level item"),
                                                     "a top level item"),
                                       "'record', 'gene', 'rule' or 'extern'")))

\* _ => return Err(Error::UnexpectedToken(t.fc, CTX.while_parsing(..).expected(..)))
top_level_error(t) ==
    Err(UnexpectedToken(t.fc, expected(while_parsing(CTX, "a top level item"),
                                       "'record', 'gene', 'rule' or 'extern'")))

\* while let Some(t) = self.peek() { match t.kind { ... } }
\* The record and extern arms go on to the item's name; the gene and rule
\* arms call grouped_separated for the binding list at once.
parse_file_loop ==
    /\ At("parse_file", "loop")
    /\ UNCHANGED <<lexer, file>>
    /\ \E t \in PeekChoices :
         IF t.tag = "None"
         THEN /\ Cursor(t, 0)
              /\ Return(Ok(Top.file), 0)
         ELSE IF t.val.kind \in {"Record", "Extern", "Gene", "Rule"}
         THEN \* let start_tok = self.next().unwrap(); let ec = CTX.start(..).while_parsing(..)
              LET desc == CASE t.val.kind = "Record" -> <<"record definition", "a record definition", "record_name">>
                            [] t.val.kind = "Extern" -> <<"extern item", "an extern item", "extern_name">>
                            [] t.val.kind = "Gene" -> <<"gene item", "a gene item", "gene_when">>
                            [] t.val.kind = "Rule" -> <<"rule item", "a rule item", "rule_arrow">>
                  ec == while_parsing(start(CTX, t.val.fc, desc[1]), desc[2])
                  f == [Top EXCEPT !.pc = desc[3], !.p0 = pos, !.start_tok = t.val, !.ec = ec,
                                   !.name = None, !.factors = <<>>, !.when = None,
                                   !.product_fc = None, !.products = <<>>]
                  list == while_parsing(ec, IF t.val.kind = "Gene" THEN "a gene factor list"
                                            ELSE "a rule reactant list")
              IN /\ Cursor(t, 1)
                 /\ IF t.val.kind \in {"Record", "Extern"}
                    THEN Goto(f)
                    ELSE Call(f, GroupedSeparatedFrame(<<"ParenOpen", "ParenClose">>,
                                     expected(list, "'('"), "Comma", expected(list, "',' or ')'"),
                                     BindingFrame(ec)))
                 /\ NoLog
         ELSE /\ Cursor(t, 0)
              /\ Return(top_level_error(t.val), 0)

\* A push that puts the item in front of the items already there.
file_push_front(f, field, item) == [f EXCEPT ![field] = <<item>> \o @]

\* file.records.push(..), file.externs.push(..), file.genes.push(..), file.rules.push(..)
file_push(f, field, item) == [f EXCEPT ![field] = Append(@, item)]

\* the push of an item, logged with the tokens the item consumed
push_item(field, item) ==
    /\ Goto([Top EXCEPT !.pc = "loop", !.file = file_push(Top.file, field, item)])
    /\ log' = Append(log, [fn |-> item.node, from |-> Top.p0, to |-> pos, res |-> Ok(item)])
    /\ UNCHANGED <<raised, outcome>>

\* let name = self.parse_identifier(ec)?;   (record and extern arms; the
\* extern arm goes on to call grouped_separated for the parameter list)
parse_file_item_name ==
    /\ \/ At("parse_file", "record_name")
       \/ At("parse_file", "extern_name")
    /\ UNCHANGED <<lexer, file>>
    /\ \E t \in PeekChoices :
         LET r == parse_identifier(Top.ec, t)
             pl == while_parsing(Top.ec, "the parameter list of an extern item")
         IN IF r.tag = "Ok"
            THEN /\ Cursor(t, 1)
                 /\ IF Top.pc = "record_name"
                    THEN Goto([Top EXCEPT !.name = r.val, !.pc = "record_fields"])
                    ELSE Call([Top EXCEPT !.name = r.val, !.pc = "extern_push"],
                              GroupedSeparatedFrame(<<"ParenOpen", "ParenClose">>,
                                  expected(pl, "'('"), "Comma", expected(pl, "',' or ')'"),
                                  FieldClosure(Top.ec, "an extern item parameter",
                                               "an extern parameter description")))
                 /\ NoLog
            ELSE /\ Cursor(t, 0)
                 /\ Return(r, 0)

\* Record { fc: start_tok.fc.merge(fc), name, fields }
Record(start_tok, fc, name, fields) ==
    [node |-> "Record", fc |-> merge(start_tok.fc, fc), name |-> name, fields |-> fields]

\* if self.peek_kind(|t| t == &TokenKind::ParenOpen) { grouped_separated } else { (name.fc(), vec![]) }
parse_file_record_fields ==
    /\ At("parse_file", "record_fields")
    /\ UNCHANGED <<lexer, file>>
    /\ \E t \in PeekChoices :
         /\ Cursor(t, 0)
         /\ IF peek_kind(t, "ParenOpen")
            THEN LET fl == while_parsing(start(Top.ec, Top.start_tok.fc, "field list"),
                                         "the field list of a record item")
                 IN /\ Call([Top EXCEPT !.pc = "record_push"],
                            GroupedSeparatedFrame(<<"ParenOpen", "ParenClose">>,
                                expected(fl, "'('"), "Comma", expected(fl, "',' or ')'"),
                                FieldClosure(Top.ec, "a record field", "a record field")))
                    /\ NoLog
            ELSE push_item("records", Record(Top.start_tok, Top.name.fc, Top.name, <<>>))

parse_file_record_push ==
    /\ At("parse_file", "record_push")
    /\ ret.tag = "Ok"
    /\ UNCHANGED <<lexer, file, toks, ended, pos>>
    /\ push_item("records", Record(Top.start_tok, ret.val.fc, Top.name, ret.val.vals))

\* Extern { fc: start_tok.fc.merge(fc), name, parameters }
Extern(start_tok, fc, name, params) ==
    [node |-> "Extern", fc |-> merge(start_tok.fc, fc), name |-> name, parameters |-> params]

parse_file_extern_push ==
    /\ At("parse_file", "extern_push")
    /\ ret.tag = "Ok"
    /\ UNCHANGED <<lexer, file, toks, ended, pos>>
    /\ push_item("externs", Extern(Top.start_tok, ret.val.fc, Top.name, ret.val.vals))

\* A gene that loses its guard.
Gene_without_guard(start_tok, end_fc, factors, when, body) ==
    [node |-> "Gene", fc |-> merge(start_tok.fc, end_fc), factors |-> factors, when |-> None,
     body |-> body]

\* Gene { fc: start_tok.fc.merge(end_fc), factors, when, body }
Gene(start_tok, end_fc, factors, when, body) ==
    [node |-> "Gene", fc |-> merge(start_tok.fc, end_fc), factors |-> factors, when |-> when,
     body |-> body]

\* the body of a gene: self.grouped((BraceOpen, BraceClose), .., |s| s.parse_gene_statement(ec))
GeneBody(ec) ==
    GroupedFrame(<<"BraceOpen", "BraceClose">>,
                 expected(while_parsing(ec, "a gene statement list"), "'{'"),
                 GeneStatementFrame(ec))

\* let next = self.peek().ok_or_else(UnexpectedEnd)?; let when = match &next.kind { When => .. }
parse_file_gene_when ==
    /\ At("parse_file", "gene_when")
    /\ ret.tag = "Ok"
    /\ UNCHANGED <<lexer, file>>
    /\ \E t \in PeekChoices :
         IF t.tag = "None"
         THEN /\ Cursor(t, 0)
              /\ Return(Err(UnexpectedEnd(file, while_parsing(Top.ec, "gene item"))), 0)
         ELSE IF t.val.kind = "When"
         THEN /\ Cursor(t, 1)
              /\ Call([Top EXCEPT !.pc = "gene_guard", !.factors = ret.val.vals],
                      ExpressionFrame(start(while_parsing(Top.ec, "a when clause"),
                                            t.val.fc, "when clause")))
              /\ NoLog
         ELSE /\ Cursor(t, 0)
              /\ Call([Top EXCEPT !.pc = "gene_push", !.factors = ret.val.vals, !.when = None],
                      GeneBody(Top.ec))
              /\ NoLog

\* Some(expr), then the body
parse_file_gene_guard ==
    /\ At("parse_file", "gene_guard")
    /\ ret.tag = "Ok"
    /\ UNCHANGED <<lexer, file, toks, ended, pos>>
    /\ Call([Top EXCEPT !.pc = "gene_push", !.when = Some(ret.val)], GeneBody(Top.ec))
    /\ NoLog

parse_file_gene_push ==
    /\ At("parse_file", "gene_push")
    /\ ret.tag = "Ok"
    /\ UNCHANGED <<lexer, file, toks, ended, pos>>
    /\ push_item("genes", Gene(Top.start_tok, ret.val.fc, Top.factors, Top.when, ret.val.vals))

\* Rule { fc: start_tok.fc.merge(end_fc), reactants, products, when }
Rule(start_tok, end_fc, reactants, products, when) ==
    [node |-> "Rule", fc |-> merge(start_tok.fc, end_fc), reactants |-> reactants,
     products |-> products, when |-> when]

\* self.expect(ec.while_parsing("a rule reaction description").expected("`->`"), ArrowR)?;
\* then self.parse_product_list(ec)
parse_file_rule_arrow ==
    /\ At("parse_file", "rule_arrow")
    /\ ret.tag = "Ok"
    /\ UNCHANGED <<lexer, file>>
    /\ \E t \in PeekChoices :
         LET ctx == expected(while_parsing(Top.ec, "a rule reaction description"), "'->'")
             r == expect(ctx, t,
                    IF t.tag = "Some"
                    THEN into_result_bool(t.val.kind = "ArrowR", ctx, t.val.fc) ELSE None)
         IN IF r.tag = "Ok"
            THEN /\ Cursor(t, 1)
                 /\ Call([Top EXCEPT !.pc = "rule_products", !.factors = ret.val.vals],
                         ProductListFrame(Top.ec))
                 /\ NoLog
            ELSE /\ Cursor(t, 0)
                 /\ Return(r, 0)

\* let (when, end_fc) = match self.peek() { Some(When) => .., _ => (None, product_fc) };
parse_file_rule_products ==
    /\ At("parse_file", "rule_products")
    /\ ret.tag = "Ok"
    /\ UNCHANGED <<lexer, file>>
    /\ \E t \in PeekChoices :
         IF peek_kind(t, "When")
         THEN /\ Cursor(t, 1)
              /\ Call([Top EXCEPT !.pc = "rule_guard", !.product_fc = ret.val.fc,
                                   !.products = ret.val.vals],
                      ExpressionFrame(start(while_parsing(Top.ec, "a when clause"),
                                            t.val.fc, "when clause")))
              /\ NoLog
         ELSE /\ Cursor(t, 0)
              /\ push_item("rules", Rule(Top.start_tok, ret.val.fc, Top.factors, ret.val.vals, None))

\* let fc = expr.fc(); (Some(expr), fc)
parse_file_rule_guard ==
    /\ At("parse_file", "rule_guard")
    /\ ret.tag = "Ok"
    /\ UNCHANGED <<lexer, file, toks, ended, pos>>
    /\ push_item("rules", Rule(Top.start_tok, ExpressionFC(ret.val), Top.factors, Top.products,
                               Some(ret.val)))

(************************ parse_gene_statement *****************************)
\* GeneStatement::Call { fc, name, arguments }
CallStatement(call_tok, end_fc, name, arguments) ==
    [node |-> "Call", fc |-> merge(call_tok.fc, end_fc), name |-> name, arguments |-> arguments]

\* GeneStatement::Express(expr_tok.fc, prod)
ExpressStatement(expr_tok, prod) ==
    [node |-> "Express", fc |-> expr_tok.fc, prod |-> prod]

parse_gene_statement_start ==
    /\ At("parse_gene_statement", "start")
    /\ UNCHANGED <<lexer, file>>
    /\ \E t \in PeekChoices :
         IF t.tag = "None"
         THEN /\ Cursor(t, 0)
              /\ Return(Err(UnexpectedEnd(file, while_parsing(Top.pec, "a gene statement"))), 0)
         ELSE IF t.val.kind = "Call"
         THEN /\ Cursor(t, 1)
              /\ Goto([Top EXCEPT !.pc = "call_name", !.tok = t.val,
                                   !.ec = start(CTX, t.val.fc, "call statement")])
              /\ NoLog
         ELSE IF t.val.kind = "Express"
         THEN /\ Cursor(t, 1)
              /\ Call([Top EXCEPT !.pc = "express_ret", !.tok = t.val],
                      ProductFrame(while_parsing(start(CTX, t.val.fc, "express statement"),
                                                 "an express statement")))
              /\ NoLog
         ELSE /\ Cursor(t, 0)
              /\ Return(Err(UnexpectedToken(t.val.fc,
                     expected(while_parsing(Top.pec, "a gene statement"),
                              "'call' or 'express'"))), 0)

\* let name = self.parse_identifier(ec.while_parsing("a call statement"))?; then the arguments
parse_gene_statement_call_name ==
    /\ At("parse_gene_statement", "call_name")
    /\ UNCHANGED <<lexer, file>>
    /\ \E t \in PeekChoices :
         LET r == parse_identifier(while_parsing(Top.ec, "a call statement"), t)
             pl == while_parsing(Top.ec, "a call statement parameter list")
         IN IF r.tag = "Ok"
            THEN /\ Cursor(t, 1)
                 /\ Call([Top EXCEPT !.pc = "call_ret", !.name = r.val],
                         GroupedSeparatedFrame(<<"ParenOpen", "ParenClose">>,
                             expected(pl, "'('"), "Comma", expected(pl, "',' or ')'"),
                             ArgumentClosure(Top.ec, "a named argument")))
                 /\ NoLog
            ELSE /\ Cursor(t, 0)
                 /\ Return(r, 0)

parse_gene_statement_call_ret ==
    /\ At("parse_gene_statement", "call_ret")
    /\ ret.tag = "Ok"
    /\ UNCHANGED <<lexer, file, toks, ended, pos>>
    /\ Return(Ok(CallStatement(Top.tok, ret.val.fc, Top.name, ret.val.vals)), 0)

parse_gene_statement_express_ret ==
    /\ At("parse_gene_statement", "express_ret")
    /\ ret.tag = "Ok"
    /\ UNCHANGED <<lexer, file, toks, ended, pos>>
    /\ Return(Ok(ExpressStatement(Top.tok, ret.val)), 0)

(************************ parse_product_list *******************************)
parse_product_list_start ==
    /\ At("parse_product_list", "start")
    /\ UNCHANGED <<lexer, file>>
    /\ \E t \in PeekChoices :
         IF t.tag = "None"
         THEN /\ Cursor(t, 0)
              /\ Return(Err(UnexpectedEnd(file, while_parsing(Top.pec, "a product list"))), 0)
         ELSE IF t.val.kind = "Nothing"
         THEN /\ Cursor(t, 1)
              /\ Return(Ok([fc |-> t.val.fc, vals |-> <<>>]), 1)
         ELSE /\ Cursor(t, 0)
              /\ Call([Top EXCEPT !.pc = "ret"],
                      SeparatedFrame("OpPlus", while_parsing(Top.pec, "a product list"),
                          ProductFrame(while_parsing(start(CTX, t.val.fc, "product list"),
                                                     "a product list"))))
              /\ NoLog

\* the value of self.separated(..) is the value of parse_product_list
parse_product_list_ret ==
    /\ At("parse_product_list", "ret")
    /\ ret.tag = "Ok"
    /\ UNCHANGED <<lexer, file, toks, ended, pos>>
    /\ Return(ret, 0)

(************************ parse_binding ************************************)
\* Binding { fc, name, attr }
Binding(fc, name, attr) == [node |-> "Binding", fc |-> fc, name |-> name, attr |-> attr]
Quantity(fc, n) == [tag |-> "Quantity", fc |-> fc, n |-> n]
Name(id) == [tag |-> "Name", id |-> id]

\* Ok(Binding { fc: start_fc.merge(name.fc()), name, attr: Some(attr) })
quantity_binding(start_fc, attr, name) == Binding(merge(start_fc, name.fc), name, Some(attr))
\* A rename binding with the two identifiers in each other's place.
rename_binding_swapped(id, name) == Binding(merge(id.fc, name.fc), id, Some(Name(name)))

\* Ok(Binding { fc: id.fc().merge(name.fc()), name, attr: Some(BindingAttribute::Name(id)) })
rename_binding(id, name) == Binding(merge(id.fc, name.fc), name, Some(Name(id)))
\* Ok(Binding { fc: id.fc(), name: id, attr: None })
plain_binding(id) == Binding(id.fc, id, None)

parse_binding_start ==
    /\ At("parse_binding", "start")
    /\ UNCHANGED <<lexer, file>>
    /\ \E t \in PeekChoices :
         LET ec0 == while_parsing(Top.pec, "a binding")
         IN IF t.tag = "None"
            THEN /\ Cursor(t, 0)
                 /\ Return(Err(UnexpectedEnd(file, expected(ec0, "a quantity or identifier"))), 0)
            ELSE LET ec == start(ec0, t.val.fc, "binding")
                 IN IF t.val.kind = "IntegerLiteral"
                    THEN /\ Cursor(t, 1)
                         /\ Goto([Top EXCEPT !.pc = "quantity_name", !.ec = ec,
                                    !.start_fc = t.val.fc,
                                    !.attr = Quantity(t.val.fc, t.val.int)])
                         /\ NoLog
                    ELSE IF t.val.kind = "Identifier"
                    THEN LET r == parse_identifier(ec, t)
                         IN IF r.tag = "Ok"
                            THEN /\ Cursor(t, 1)
                                 /\ Goto([Top EXCEPT !.pc = "after_id", !.ec = ec,
                                            !.start_fc = t.val.fc, !.id = r.val])
                                 /\ NoLog
                            ELSE /\ Cursor(t, 0)
                                 /\ Return(r, 0)
                    ELSE /\ Cursor(t, 0)
                         /\ Return(Err(UnexpectedToken(t.val.fc,
                                expected(while_parsing(Top.pec, "a record binding"),
                                         "a quantity or identifier"))), 0)

\* let name = self.parse_identifier(ec)?; Ok(Binding { fc: start_fc.merge(name.fc()), .. })
parse_binding_quantity_name ==
    /\ At("parse_binding", "quantity_name")
    /\ UNCHANGED <<lexer, file>>
    /\ \E t \in PeekChoices :
         LET r == parse_identifier(Top.ec, t)
         IN IF r.tag = "Ok"
            THEN /\ Cursor(t, 1)
                 /\ Return(Ok(quantity_binding(Top.start_fc, Top.attr, r.val)), 1)
            ELSE /\ Cursor(t, 0)
                 /\ Return(r, 0)

\* if let Some(next) = self.peek() { if next.kind == TokenKind::Colon { .. } else { .. } } else { .. }
parse_binding_after_id ==
    /\ At("parse_binding", "after_id")
    /\ UNCHANGED <<lexer, file>>
    /\ \E t \in PeekChoices :
         IF t.tag = "Some" /\ t.val.kind = "Colon"
         THEN /\ Cursor(t, 1)
              /\ Goto([Top EXCEPT !.pc = "rename"])
              /\ NoLog
         ELSE /\ Cursor(t, 0)
              /\ Return(Ok(plain_binding(Top.id)), 0)

\* let name = self.parse_identifier(ec)?; Ok(Binding { fc: id.fc().merge(name.fc()), .. })
parse_binding_rename ==
    /\ At("parse_binding", "rename")
    /\ UNCHANGED <<lexer, file>>
    /\ \E t \in PeekChoices :
         LET r == parse_identifier(Top.ec, t)
         IN IF r.tag = "Ok"
            THEN /\ Cursor(t, 1)
                 /\ Return(Ok(rename_binding(Top.id, r.val)), 1)
            ELSE /\ Cursor(t, 0)
                 /\ Return(r, 0)

(************************ parse_product ************************************)
\* Product { fc: start_fc.merge(fc), quantity, name, fields }
Product(start_fc, fc, quantity, name, fields) ==
    [node |-> "Product", fc |-> merge(start_fc, fc), quantity |-> quantity, name |-> name,
     fields |-> fields]

\* let quantity = if let Some(Token { fc, kind: IntegerLiteral(l) }) = self.peek() { .. };
\* without a quantity the same token is the one parse_identifier inspects
parse_product_start ==
    /\ At("parse_product", "start")
    /\ UNCHANGED <<lexer, file>>
    /\ \E t \in PeekChoices :
         IF t.tag = "Some" /\ t.val.kind = "IntegerLiteral"
         THEN /\ Cursor(t, 1)
              /\ Goto([Top EXCEPT !.pc = "name",
                         !.quantity = Some([fc |-> t.val.fc, n |-> t.val.int])])
              /\ NoLog
         ELSE LET r == parse_identifier(while_parsing(Top.pec, "a product"), t)
              IN IF r.tag = "Ok"
                 THEN /\ Cursor(t, 1)
                      /\ Goto([Top EXCEPT !.pc = "fields", !.name = r.val])
                      /\ NoLog
                 ELSE /\ Cursor(t, 0)
                      /\ Return(r, 0)

\* let name = self.parse_identifier(pec.while_parsing("a product"))?;
parse_product_name ==
    /\ At("parse_product", "name")
    /\ UNCHANGED <<lexer, file>>
    /\ \E t \in PeekChoices :
         LET r == parse_identifier(while_parsing(Top.pec, "a product"), t)
         IN IF r.tag = "Ok"
            THEN /\ Cursor(t, 1)
                 /\ Goto([Top EXCEPT !.pc = "fields", !.name = r.val])
                 /\ NoLog
            ELSE /\ Cursor(t, 0)
                 /\ Return(r, 0)

\* let start_fc = if let Some((fc, _)) = &quantity { *fc } else { name.fc() };
product_start_fc(f) == IF f.quantity.tag = "Some" THEN f.quantity.val.fc ELSE f.name.fc

\* let (fc, fields) = if self.peek_kind(ParenOpen) { grouped_separated } else { (name.fc(), vec![]) }
parse_product_fields ==
    /\ At("parse_product", "fields")
    /\ UNCHANGED <<lexer, file>>
    /\ \E t \in PeekChoices :
         /\ Cursor(t, 0)
         /\ IF peek_kind(t, "ParenOpen")
            THEN LET ec == while_parsing(start(CTX, product_start_fc(Top), "product"), "a product")
                 IN /\ Call([Top EXCEPT !.pc = "ret"],
                            GroupedSeparatedFrame(<<"ParenOpen", "ParenClose">>,
                                expected(while_parsing(ec, "the start of product fields"), "'('"),
                                "Comma",
                                expected(while_parsing(ec, "a product field list"), "',' or ')'"),
                                ArgumentClosure(ec, "a product field")))
                    /\ NoLog
            ELSE Return(Ok(Product(product_start_fc(Top), Top.name.fc, Top.quantity, Top.name,
                                   <<>>)), 0)

parse_product_ret ==
    /\ At("parse_product", "ret")
    /\ ret.tag = "Ok"
    /\ UNCHANGED <<lexer, file, toks, ended, pos>>
    /\ Return(Ok(Product(product_start_fc(Top), ret.val.fc, Top.quantity, Top.name,
                         ret.val.vals)), 0)

(************************ parse_expression **********************************)
\* let op = match next.kind { OpPlus => (next.fc, Add), .., _ => return Ok(expr) };
infix_operator(kind) ==
    CASE kind = "OpPlus" -> Some("Add")
      [] kind = "OpMinus" -> Some("Sub")
      [] kind = "OpStar" -> Some("Mul")
      [] kind = "OpSlash" -> Some("Div")
      [] kind = "OpEquals" -> Some("Eq")
      [] kind = "OpNotEquals" -> Some("Neq")
      [] kind = "OpLessThan" -> Some("Lt")
      [] kind = "OpLessThanEqual" -> Some("Lte")
      [] kind = "OpGreaterThan" -> Some("Gt")
      [] kind = "OpGreaterThanEqual" -> Some("Gte")
      [] OTHER -> None

\* A parser with the usual precedence: '*' and '/' bind tighter than a '+' or
\* '-' to their left.
infix_combine_precedence(op, expr, rhs) ==
    IF expr.tag = "InfixOp" /\ expr.op.op \in {"Add", "Sub"} /\ op.op \in {"Mul", "Div"}
    THEN InfixOp(expr.op, expr.args[1], InfixOp(op, expr.args[2], rhs))
    ELSE InfixOp(op, expr, rhs)

\* expr = Expression::InfixOp { op, args: Box::new([expr, rhs]) };
infix_combine(op, expr, rhs) == InfixOp(op, expr, rhs)

\* let mut expr = self.parse_expression_atom(pec)?;
parse_expression_start ==
    /\ At("parse_expression", "start")
    /\ UNCHANGED <<lexer, file, toks, ended, pos>>
    /\ Call([Top EXCEPT !.pc = "first"], ExpressionAtomFrame(Top.pec))
    /\ NoLog

\* while let Some(next) = self.peek() { let op = ..; self.next(); let rhs = atom?; expr = InfixOp }
parse_expression_loop ==
    /\ \/ At("parse_expression", "first")
       \/ At("parse_expression", "rhs")
    /\ ret.tag = "Ok"
    /\ UNCHANGED <<lexer, file>>
    /\ \E t \in PeekChoices :
         LET expr == IF Top.pc = "first" THEN ret.val
                     ELSE infix_combine(Top.op, Top.expr, ret.val)
             op == IF t.tag = "Some" THEN infix_operator(t.val.kind) ELSE None
         IN IF op.tag = "Some"
            THEN /\ Cursor(t, 1)
                 /\ Call([Top EXCEPT !.pc = "rhs", !.expr = expr,
                                      !.op = [fc |-> t.val.fc, op |-> op.val]],
                         ExpressionAtomFrame(Top.pec))
                 /\ NoLog
            ELSE /\ Cursor(t, 0)
                 /\ Return(Ok(expr), 0)

(************************ parse_expression_atom *****************************)
parse_expression_atom_start ==
    /\ At("parse_expression_atom", "start")
    /\ UNCHANGED <<lexer, file>>
    /\ \E t \in PeekChoices :
         IF t.tag = "None"
         THEN /\ Cursor(t, 0)
              /\ Return(Err(UnexpectedEnd(file, while_parsing(Top.pec, "an expression atom"))), 0)
         ELSE LET k == t.val.kind
                  start_fc == t.val.fc
              IN IF k \in {"Identifier", "IntegerLiteral", "StringLiteral"}
                 THEN /\ Cursor(t, 1)
                      /\ Goto([Top EXCEPT !.pc = "postfix",
                                 !.expr = CASE k = "Identifier" ->
                                                 Variable(Identifier(start_fc, t.val.name))
                                            [] k = "IntegerLiteral" ->
                                                 IntegerLiteral(start_fc, t.val.int)
                                            [] k = "StringLiteral" ->
                                                 StringLiteral(start_fc, t.val.str)])
                      /\ NoLog
                 ELSE IF k = "BracketOpen"
                 THEN /\ Cursor(t, 1)
                      /\ Goto([Top EXCEPT !.pc = "concentration_name"])
                      /\ NoLog
                 ELSE IF k = "ParenOpen"
                 THEN /\ Cursor(t, 1)
                      /\ Call([Top EXCEPT !.pc = "paren_close"], ExpressionFrame(Top.pec))
                      /\ NoLog
                 ELSE IF k = "OpMinus"
                 THEN /\ Cursor(t, 1)
                      /\ Call([Top EXCEPT !.pc = "negated", !.tok = t.val],
                              ExpressionAtomFrame(Top.pec))
                      /\ NoLog
                 ELSE /\ Cursor(t, 0)
                      /\ Return(Err(UnexpectedToken(start_fc,
                             while_parsing(Top.pec, "an expression atom"))), 0)

\* let name = self.parse_identifier(pec.while_parsing("a type inside a concentration expression"))?;
parse_expression_atom_concentration_name ==
    /\ At("parse_expression_atom", "concentration_name")
    /\ UNCHANGED <<lexer, file>>
    /\ \E t \in PeekChoices :
         LET r == parse_identifier(
                      while_parsing(Top.pec, "a type inside a concentration expression"), t)
         IN IF r.tag = "Ok"
            THEN /\ Cursor(t, 1)
                 /\ Goto([Top EXCEPT !.pc = "concentration_close", !.name = r.val])
                 /\ NoLog
            ELSE /\ Cursor(t, 0)
                 /\ Return(r, 0)

\* self.expect(pec.while_parsing("a concentration expression").expected("`]`"), BracketClose)?;
\* self.expect(pec.while_parsing("a nested expression").expected("`)`"), ParenClose)?;
parse_expression_atom_close ==
    /\ \/ At("parse_expression_atom", "concentration_close")
       \/ At("parse_expression_atom", "paren_close") /\ ret.tag = "Ok"
    /\ UNCHANGED <<lexer, file>>
    /\ \E t \in PeekChoices :
         LET conc == Top.pc = "concentration_close"
             ctx == IF conc
                    THEN expected(while_parsing(Top.pec, "a concentration expression"), "']'")
                    ELSE expected(while_parsing(Top.pec, "a nested expression"), "')'")
             r == expect(ctx, t,
                    IF t.tag = "Some"
                    THEN into_result_bool(
                             t.val.kind = (IF conc THEN "BracketClose" ELSE "ParenClose"),
                             ctx, t.val.fc)
                    ELSE None)
         IN IF r.tag = "Ok"
            THEN /\ Cursor(t, 1)
                 /\ Goto([Top EXCEPT !.pc = "postfix",
                            !.expr = IF conc THEN Concentration(Top.name) ELSE ret.val])
                 /\ NoLog
            ELSE /\ Cursor(t, 0)
                 /\ Return(r, 0)

\* Expression::PrefixOp { op: (t.fc, PrefixOperator::Neg), expr: Box::new(rhs) }
\* A negation that binds tighter than the field access: it goes to the base
\* of the operand's field chain.
RECURSIVE negation_of_base(_, _)
negation_of_base(t, rhs) ==
    IF rhs.tag = "FieldAccess"
    THEN FieldAccess(negation_of_base(t, rhs.base), rhs.field_name)
    ELSE PrefixOp([fc |-> t.fc, op |-> "Neg"], rhs)

negation(t, rhs) == PrefixOp([fc |-> t.fc, op |-> "Neg"], rhs)

\* while let Some(next) = self.peek() { if next.kind == Dot { self.next(); .. } else { break } } Ok(expr)
parse_expression_atom_postfix ==
    /\ \/ At("parse_expression_atom", "postfix")
       \/ At("parse_expression_atom", "negated") /\ ret.tag = "Ok"
    /\ UNCHANGED <<lexer, file>>
    /\ \E t \in PeekChoices :
         LET expr == IF Top.pc = "negated" THEN negation(Top.tok, ret.val) ELSE Top.expr
         IN IF t.tag = "Some" /\ t.val.kind = "Dot"
            THEN /\ Cursor(t, 1)
                 /\ Goto([Top EXCEPT !.pc = "field_name", !.expr = expr])
                 /\ NoLog
            ELSE /\ Cursor(t, 0)
                 /\ Return(Ok(expr), 0)

\* let name = self.parse_identifier(pec.while_parsing("a filed access expression"))?;
\* expr = Expression::FieldAccess { base: Box::new(expr), field_name: name };
parse_expression_atom_field_name ==
    /\ At("parse_expression_atom", "field_name")
    /\ UNCHANGED <<lexer, file>>
    /\ \E t \in PeekChoices :
         LET r == parse_identifier(while_parsing(Top.pec, "a filed access expression"), t)
         IN IF r.tag = "Ok"
            THEN /\ Cursor(t, 1)
                 /\ Goto([Top EXCEPT !.pc = "postfix", !.expr = FieldAccess(Top.expr, r.val)])
                 /\ NoLog
            ELSE /\ Cursor(t, 0)
                 /\ Return(r, 0)

(************************ argument closures *********************************)
\* let name = s.parse_identifier(ec.while_parsing(..))?;
argument_closure_ident ==
    /\ At("argument_closure", "ident")
    /\ UNCHANGED <<lexer, file>>
    /\ \E t \in PeekChoices :
         LET r == parse_identifier(while_parsing(Top.ec, Top.desc), t)
         IN IF r.tag = "Ok"
            THEN /\ Cursor(t, 1)
                 /\ Goto([Top EXCEPT !.pc = "colon", !.name = r.val])
                 /\ NoLog
            ELSE /\ Cursor(t, 0)
                 /\ Return(r, 0)

\* let (colon_fc, _) = s.expect_tok_and_fc(ec.while_parsing(..).expected(":"), ..)?;
\* let val = s.parse_expression(CTX.start(colon_fc, "beginning of expression").while_parsing(..))?;
argument_closure_colon ==
    /\ At("argument_closure", "colon")
    /\ UNCHANGED <<lexer, file>>
    /\ \E t \in PeekChoices :
         LET r == expect_tok_and_fc_bool(
                      expected(while_parsing(Top.ec, Top.desc), "':'"), t, "Colon")
         IN IF r.tag = "Ok"
            THEN /\ Cursor(t, 1)
                 /\ Call([Top EXCEPT !.pc = "ret"],
                         ExpressionFrame(while_parsing(
                             start(CTX, r.val[1], "beginning of expression"), "an expression")))
                 /\ NoLog
            ELSE /\ Cursor(t, 0)
                 /\ Return(r, 0)

\* Ok((name, val)); the pair is a record, so that the value of every function
\* compares with the value of every other.
argument_closure_ret ==
    /\ At("argument_closure", "ret")
    /\ ret.tag = "Ok"
    /\ UNCHANGED <<lexer, file, toks, ended, pos>>
    /\ Return(Ok([name |-> Top.name, val |-> ret.val]), 0)

(************************ field closures ***********************************)
\* let ident = s.parse_identifier(ec.while_parsing(..))?;
field_closure_ident ==
    /\ At("field_closure", "ident")
    /\ UNCHANGED <<lexer, file>>
    /\ \E t \in PeekChoices :
         LET r == parse_identifier(while_parsing(Top.ec, Top.ident_desc), t)
         IN IF r.tag = "Ok"
            THEN /\ Cursor(t, 1)
                 /\ Goto([Top EXCEPT !.pc = "colon", !.ident = r.val])
                 /\ NoLog
            ELSE /\ Cursor(t, 0)
                 /\ Return(r, 0)

\* let (colon_fc, _) = s.expect_tok_and_fc(ec.while_parsing(..).expected(":"), ..)?;
field_closure_colon ==
    /\ At("field_closure", "colon")
    /\ UNCHANGED <<lexer, file>>
    /\ \E t \in PeekChoices :
         LET r == expect_tok_and_fc_bool(
                      expected(while_parsing(Top.ec, Top.colon_desc), "':'"), t, "Colon")
         IN IF r.tag = "Ok"
            THEN /\ Cursor(t, 1)
                 /\ Goto([Top EXCEPT !.pc = "type", !.colon_fc = r.val[1]])
                 /\ NoLog
            ELSE /\ Cursor(t, 0)
                 /\ Return(r, 0)

\* let ty = s.parse_type(ec.start(colon_fc, "beginning of type"))?; Ok((ident, ty))
field_closure_type ==
    /\ At("field_closure", "type")
    /\ UNCHANGED <<lexer, file>>
    /\ \E t \in PeekChoices :
         LET r == parse_type(start(Top.ec, Top.colon_fc, "beginning of type"), t)
         IN IF r.tag = "Ok"
            THEN /\ Cursor(t, 1)
                 /\ Return(Ok([ident |-> Top.ident, ty |-> r.val]), 1)
            ELSE /\ Cursor(t, 0)
                 /\ Return(r, 0)

(************************ grouped_separated ********************************)
\* A loop that takes the end of the input for the closing token.
peek_is_or_end(t, k) == t.tag = "None" \/ t.val.kind = k

\* self.peek().map(|t| &t.kind) == Some(&delim.1)
peek_is(t, k) == t.tag = "Some" /\ t.val.kind = k

\* let (start_fc, ()) = self.expect_tok_and_fc(delim_start_context, |t| t.kind == delim.0)?;
grouped_separated_open ==
    /\ At("grouped_separated", "open")
    /\ UNCHANGED <<lexer, file>>
    /\ \E t \in PeekChoices :
         LET r == expect_tok_and_fc_bool(Top.delim_start_context, t, Top.delim[1])
         IN IF r.tag = "Ok"
            THEN /\ Cursor(t, 1)
                 /\ Goto([Top EXCEPT !.pc = "loop", !.start_fc = r.val[1]])
                 /\ NoLog
            ELSE /\ Cursor(t, 0)
                 /\ Return(r, 0)

\* loop { if <next is delim.1> { next().unwrap(); return Ok((fc, vals)) }  vals.push(f(self)?); ..
grouped_separated_loop ==
    /\ At("grouped_separated", "loop")
    /\ UNCHANGED <<lexer, file>>
    /\ \E t \in PeekChoices :
         IF peek_is(t, Top.delim[2])
         THEN IF t.tag = "Some"
              THEN /\ Cursor(t, 1)
                   /\ Return(Ok([fc |-> merge(Top.start_fc, t.val.fc), vals |-> Top.vals]), 1)
              ELSE /\ Cursor(t, 0)
                   /\ Panics
         ELSE /\ Cursor(t, 0)
              /\ Call([Top EXCEPT !.pc = "elem"], Top.f)
              /\ NoLog

\* A matcher for which the separator ends the list as the closing token does.
separator_ends(tok, delim, separator) ==
    IF tok.kind = delim[2] \/ tok.kind = separator THEN Some(TRUE) ELSE None

\* the matcher of the separator-or-end expect: Some(true), Some(false) or None
separator_or_end(tok, delim, separator) ==
    IF tok.kind = delim[2] THEN Some(TRUE)
    ELSE IF tok.kind = separator THEN Some(FALSE)
    ELSE None

\* vals.push(f(self)?); let (fc, end) = self.expect_tok_and_fc(..)?; if end { return Ok(..) }
grouped_separated_elem ==
    /\ At("grouped_separated", "elem")
    /\ ret.tag = "Ok"
    /\ UNCHANGED <<lexer, file>>
    /\ \E t \in PeekChoices :
         LET ctx == Top.separator_or_delim_end_context
             vals == Append(Top.vals, ret.val)
             r == expect(ctx, t,
                    IF t.tag = "Some"
                    THEN LET q == into_result_option(
                                      separator_or_end(t.val, Top.delim, Top.separator),
                                      ctx, t.val.fc)
                         IN into_result_result(
                                IF q.tag = "Ok" THEN Ok(<<t.val.fc, q.val>>) ELSE q,
                                ctx, t.val.fc)
                    ELSE None)
         IN IF r.tag = "Ok"
            THEN /\ Cursor(t, 1)
                 /\ IF r.val[2]
                    THEN Return(Ok([fc |-> merge(Top.start_fc, r.val[1]), vals |-> vals]), 1)
                    ELSE /\ Goto([Top EXCEPT !.pc = "loop", !.vals = vals])
                         /\ NoLog
            ELSE /\ Cursor(t, 0)
                 /\ Return(r, 0)

(************************ grouped ******************************************)
\* let (start_fc, ()) = self.expect_tok_and_fc(start_delim_context, |t| t.kind == delim.0)?;
grouped_open ==
    /\ At("grouped", "open")
    /\ UNCHANGED <<lexer, file>>
    /\ \E t \in PeekChoices :
         LET r == expect_tok_and_fc_bool(Top.start_delim_context, t, Top.delim[1])
         IN IF r.tag = "Ok"
            THEN /\ Cursor(t, 1)
                 /\ Goto([Top EXCEPT !.pc = "loop", !.start_fc = r.val[1]])
                 /\ NoLog
            ELSE /\ Cursor(t, 0)
                 /\ Return(r, 0)

\* loop { if <next is delim.1> { next().unwrap(); return Ok((fc, vals)) }  vals.push(f(self)?); }
grouped_loop ==
    /\ \/ At("grouped", "loop")
       \/ At("grouped", "elem") /\ ret.tag = "Ok"
    /\ UNCHANGED <<lexer, file>>
    /\ \E t \in PeekChoices :
         LET vals == IF Top.pc = "elem" THEN Append(Top.vals, ret.val) ELSE Top.vals
         IN IF peek_is(t, Top.delim[2])
            THEN IF t.tag = "Some"
                 THEN /\ Cursor(t, 1)
                      /\ Return(Ok([fc |-> merge(Top.start_fc, t.val.fc), vals |-> vals]), 1)
                 ELSE /\ Cursor(t, 0)
                      /\ Panics
            ELSE /\ Cursor(t, 0)
                 /\ Call([Top EXCEPT !.pc = "elem", !.vals = vals], Top.f)
                 /\ NoLog

(************************ separated ****************************************)
\* let start_fc = self.peek().ok_or(Error::UnexpectedEnd(file, context))?.fc; vals.push(f(self)?);
separated_start ==
    /\ At("separated", "start")
    /\ UNCHANGED <<lexer, file>>
    /\ \E t \in PeekChoices :
         /\ Cursor(t, 0)
         /\ IF t.tag = "None"
            THEN Return(Err(UnexpectedEnd(file, Top.context)), 0)
            ELSE /\ Call([Top EXCEPT !.pc = "elem", !.start_fc = t.val.fc], Top.f)
                 /\ NoLog

\* An end test that takes ',' for the separator whatever sep is.
separated_ends_comma(t, sep) == IF t.tag = "Some" THEN t.val.kind # "Comma" ELSE TRUE

\* the element just parsed is not followed by the separator
separated_ends(t, sep) == IF t.tag = "Some" THEN t.val.kind # sep ELSE TRUE

\* loop { if let Some(t) = self.peek() { if t.kind != sep { return .. } else { next; push(f?) } }
\*        else { return .. } }
separated_loop ==
    /\ At("separated", "elem")
    /\ ret.tag = "Ok"
    /\ UNCHANGED <<lexer, file>>
    /\ \E t \in PeekChoices :
         LET vals == Append(Top.vals, ret.val)
         IN IF separated_ends(t, Top.sep)
            THEN /\ Cursor(t, 0)
                 /\ IF vals = <<>>
                    THEN Panics
                    ELSE Return(Ok([fc |-> merge(Top.start_fc, vals[Len(vals)].fc),
                                    vals |-> vals]), 0)
            ELSE /\ Cursor(t, 1)
                 /\ Call([Top EXCEPT !.vals = vals], Top.f)
                 /\ NoLog

Init ==
    /\ lexer \in Lexers
    /\ file \in {"main.cyt"}
    /\ toks = <<>>
    /\ ended = FALSE
    /\ pos = 0
    /\ stack = <<FileFrame>>
    /\ ret = None
    /\ outcome = None
    /\ raised = None
    /\ log = <<>>

Next ==
    \/ parse_file_loop
    \/ parse_file_item_name
    \/ parse_file_record_fields
    \/ parse_file_record_push
    \/ parse_file_extern_push
    \/ parse_file_gene_when
    \/ parse_file_gene_guard
    \/ parse_file_gene_push
    \/ parse_file_rule_arrow
    \/ parse_file_rule_products
    \/ parse_file_rule_guard
    \/ parse_gene_statement_start
    \/ parse_gene_statement_call_name
    \/ parse_gene_statement_call_ret
    \/ parse_gene_statement_express_ret
    \/ parse_product_list_start
    \/ parse_product_list_ret
    \/ parse_binding_start
    \/ parse_binding_quantity_name
    \/ parse_binding_after_id
    \/ parse_binding_rename
    \/ parse_product_start
    \/ parse_product_name
    \/ parse_product_fields
    \/ parse_product_ret
    \/ parse_expression_start
    \/ parse_expression_loop
    \/ parse_expression_atom_start
    \/ parse_expression_atom_concentration_name
    \/ parse_expression_atom_close
    \/ parse_expression_atom_postfix
    \/ parse_expression_atom_field_name
    \/ field_closure_ident
    \/ field_closure_colon
    \/ field_closure_type
    \/ argument_closure_ident
    \/ argument_closure_colon
    \/ argument_closure_ret
    \/ grouped_open
    \/ grouped_loop
    \/ grouped_separated_open
    \/ grouped_separated_loop
    \/ grouped_separated_elem
    \/ separated_start
    \/ separated_loop
    \/ Propagate

Spec == Init /\ [][Next]_vars

\* The parser is sequential code that runs until parse_file returns: a step
\* that can be taken is taken.
\* Every step changes the position of a function on the stack, the number of
\* values a loop has collected, the log or the outcome; the values themselves
\* are left out because the values of two functions need not be comparable.
stepped ==
    <<toks, ended, pos, [i \in DOMAIN stack |-> <<stack[i].fn, stack[i].pc>>], Len(log),
      outcome.tag,
      IF stack # <<>> /\ "vals" \in DOMAIN Top THEN Len(Top.vals) ELSE 0>>
FairSpec == Spec /\ WF_stepped(Next)

(***************************************************************************)
(* Reading the history                                                     *)
(***************************************************************************)
Succeeded == outcome.tag = "Some" /\ outcome.val.tag = "Ok"
Failed == outcome.tag = "Some" /\ outcome.val.tag = "Err"

\* The merge of the spans of the tokens i .. j.
RECURSIVE merge_all(_, _)
merge_all(i, j) == IF i >= j THEN toks[i].fc ELSE merge(toks[i].fc, merge_all(i + 1, j))

\* The log entries of the AST nodes: the items parse_file pushed and the
\* values parse_binding, parse_product and parse_gene_statement returned.
NodeFns == {"Record", "Extern", "Gene", "Rule", "parse_binding", "parse_product",
            "parse_gene_statement"}
IsNode(e) == e.fn \in NodeFns /\ e.res.tag = "Ok"
SpanIsConsumed(e) == e.res.val.fc = merge_all(e.from + 1, e.to)

(***************************************************************************)
(* C1: after a successful parse, the span of every AST node (Record,       *)
(* Extern, Gene, Rule, Binding, Product, Call, Express) is exactly the     *)
(* merge of the spans of the tokens consumed while that node was parsed.   *)
(* The code breaks it: Express carries the span of the 'express' keyword   *)
(* alone, and a Rule with a guard ends at the guard expression's own span, *)
(* which leaves out a closing ')' or ']'.                                  *)
(***************************************************************************)
C1_SpanIsMergeOfConsumedTokens ==
    Succeeded => \A i \in DOMAIN log : IsNode(log[i]) => SpanIsConsumed(log[i])


(***************************************************************************)
(* C2: parse_expression treats the ten infix operators as one precedence   *)
(* level, left-associative.  Whenever parse_expression returns having      *)
(* consumed a chain atom0 op1 atom1 ... opN atomN of one-token atoms, its  *)
(* value is the left-nested InfixOp(opN, [InfixOp(.. op1 ..), atomN]), and *)
(* it never returns in front of one of the ten operators.                  *)
(***************************************************************************)
SimpleAtomKinds == {"Identifier", "IntegerLiteral", "StringLiteral"}

\* The expression a one-token atom stands for.
AtomOf(tok) ==
    CASE tok.kind = "Identifier" -> Variable(Identifier(tok.fc, tok.name))
      [] tok.kind = "IntegerLiteral" -> IntegerLiteral(tok.fc, tok.int)
      [] tok.kind = "StringLiteral" -> StringLiteral(tok.fc, tok.str)

\* + - * / = != < <= > >= as the claim lists them.
OperatorOf(kind) ==
    CASE kind = "OpPlus" -> "Add"    [] kind = "OpMinus" -> "Sub"
      [] kind = "OpStar" -> "Mul"    [] kind = "OpSlash" -> "Div"
      [] kind = "OpEquals" -> "Eq"   [] kind = "OpNotEquals" -> "Neq"
      [] kind = "OpLessThan" -> "Lt" [] kind = "OpLessThanEqual" -> "Lte"
      [] kind = "OpGreaterThan" -> "Gt" [] kind = "OpGreaterThanEqual" -> "Gte"

\* Tokens from+1 .. to are atom (op atom)*.
IsChain(from, to) ==
    /\ to > from
    /\ (to - from) % 2 = 1
    /\ \A i \in (from + 1)..to :
         IF (i - from) % 2 = 1 THEN toks[i].kind \in SimpleAtomKinds
         ELSE toks[i].kind \in InfixKinds

RECURSIVE LeftNested(_, _)
LeftNested(from, to) ==
    IF to = from + 1 THEN AtomOf(toks[to])
    ELSE InfixOp([fc |-> toks[to - 1].fc, op |-> OperatorOf(toks[to - 1].kind)],
                 LeftNested(from, to - 2), AtomOf(toks[to]))

IsReturn(e, fn) == e.fn = fn /\ e.res.tag = "Ok"

C2_LeftAssociativeOneLevel ==
    \A i \in DOMAIN log :
        IsReturn(log[i], "parse_expression") =>
            /\ IsChain(log[i].from, log[i].to) =>
                   log[i].res.val = LeftNested(log[i].from, log[i].to)
            /\ Len(toks) > log[i].to => toks[log[i].to + 1].kind \notin InfixKinds

\* a + b * c has been parsed to InfixOp(Mul, [InfixOp(Add, [a, b]), c])
C2_Witness ==
    \E i \in DOMAIN log :
        /\ IsReturn(log[i], "parse_expression")
        /\ log[i].to = log[i].from + 5
        /\ LET t == [k \in 1..5 |-> toks[log[i].from + k]]
           IN /\ <<t[1].kind, t[2].kind, t[3].kind, t[4].kind, t[5].kind>> =
                     <<"Identifier", "OpPlus", "Identifier", "OpStar", "Identifier">>
              /\ log[i].res.val =
                     InfixOp([fc |-> t[4].fc, op |-> "Mul"],
                             InfixOp([fc |-> t[2].fc, op |-> "Add"],
                                     Variable(Identifier(t[1].fc, t[1].name)),
                                     Variable(Identifier(t[3].fc, t[3].name))),
                             Variable(Identifier(t[5].fc, t[5].name)))


(***************************************************************************)
(* C3: parse_file never panics.  Every next().unwrap() and the             *)
(* vals.last().unwrap() of separated find a value, every step of a running *)
(* parse has a successor, and a parse that has ended has returned a File   *)
(* or an Error.                                                            *)
(***************************************************************************)
C3_NoPanic ==
    /\ outcome # Panic
    /\ outcome = None => stack # <<>> /\ ENABLED Next
    /\ outcome # None => stack = <<>> /\ (Succeeded \/ Failed)
    /\ Succeeded => DOMAIN outcome.val.val = {"records", "externs", "genes", "rules"}
    /\ Failed => outcome.val.err.kind \in {"UnexpectedToken", "UnexpectedEnd"}

\* a successful parse in which grouped and grouped_separated took their
\* closing tokens and separated took its last element
C3_Witness ==
    /\ Succeeded
    /\ \E i \in DOMAIN log : IsReturn(log[i], "grouped")
    /\ \E i \in DOMAIN log : IsReturn(log[i], "grouped_separated")
    /\ \E i \in DOMAIN log : IsReturn(log[i], "separated") /\ Len(log[i].res.val.vals) > 0


(***************************************************************************)
(* C4: the first failure ends the parse.  Once an error value has been     *)
(* built, no token is consumed any more, no File is returned, and every    *)
(* enclosing function and parse_file itself return that very error value.  *)
(***************************************************************************)
C4_FirstErrorIsReturnedUnchanged ==
    /\ raised # None =>
         /\ pos = raised.val.at
         /\ ~Succeeded
         /\ ret.tag = "Err" /\ ret.err = raised.val.err
         /\ \A i \in DOMAIN log : log[i].res.tag = "Err" => log[i].res.err = raised.val.err
         /\ outcome # None => outcome = Some(Err(raised.val.err))
    /\ Failed => raised # None

\* parse_file has returned an error that five nested functions handed on
C4_Witness ==
    /\ Failed
    /\ outcome.val.err = raised.val.err
    /\ Cardinality({i \in DOMAIN log : log[i].res.tag = "Err"}) >= 6

(***************************************************************************)
(* C5: an error built when the token sequence is exhausted is              *)
(* UnexpectedEnd with the file id given to parse_file, and an error built  *)
(* in front of a token is UnexpectedToken: the end of the input is never   *)
(* reported as an unexpected token.                                       *)
(***************************************************************************)
C5_ExhaustedInputIsUnexpectedEnd ==
    raised # None =>
        LET e == raised.val.err
        IN /\ (Len(toks) = raised.val.at) <=> (e.kind = "UnexpectedEnd")
           /\ e.kind = "UnexpectedEnd" => e.file = file /\ ended
           /\ e.kind = "UnexpectedToken" => ~ended

\* the input ended inside a bracketed list right after an element
C5_Witness ==
    /\ Failed
    /\ outcome.val.err.kind = "UnexpectedEnd"
    /\ outcome.val.err.ctx.expected = Some("',' or ')'")
    /\ \E i \in DOMAIN log :
         /\ log[i].fn \in {"field_closure", "argument_closure", "parse_binding"}
         /\ log[i].res.tag = "Ok"
         /\ log[i].to = Len(toks)

(***************************************************************************)
(* C6: grouped_separated accepts exactly  open close  and                  *)
(* open elem (sep elem)* [sep] close  (every call site uses '(' ',' ')'):  *)
(* its value holds one element per element-parser call, in order, a       *)
(* trailing separator adds none, and after an element a token that is      *)
(* neither the separator nor the closing token fails with UnexpectedToken. *)
(***************************************************************************)
ElementFns == {"field_closure", "argument_closure", "parse_binding"}

RECURSIVE Ascending(_)
Ascending(S) ==
    IF S = {} THEN <<>>
    ELSE LET m == CHOOSE x \in S : \A y \in S : x <= y
         IN <<m>> \o Ascending(S \ {m})

\* The log indices of the elements the list logged at j parsed, in order.
ElementsOf(j, fns) ==
    Ascending({i \in 1..(j - 1) :
                 /\ log[i].fn \in fns
                 /\ log[i].res.tag = "Ok"
                 /\ log[i].from > log[j].from})

ListShape(j) ==
    LET g == log[j]
        es == ElementsOf(j, ElementFns)
        n == Len(es)
    IN /\ toks[g.from + 1].kind = "ParenOpen"
       /\ toks[g.to].kind = "ParenClose"
       /\ g.res.val.vals = [k \in 1..n |-> log[es[k]].res.val]
       /\ IF n = 0 THEN g.to = g.from + 2
          ELSE /\ log[es[1]].from = g.from + 1
               /\ \A k \in 1..(n - 1) :
                    /\ toks[log[es[k]].to + 1].kind = "Comma"
                    /\ log[es[k + 1]].from = log[es[k]].to + 1
               /\ \/ g.to = log[es[n]].to + 1
                  \/ g.to = log[es[n]].to + 2 /\ toks[log[es[n]].to + 1].kind = "Comma"

\* The error grouped_separated itself builds, at its opening token or after
\* an element.
ListOwnError(j) ==
    LET g == log[j]
        e == g.res.err
    IN IF Len(toks) = g.to THEN e.kind = "UnexpectedEnd"
       ELSE /\ e.kind = "UnexpectedToken"
            /\ e.fc = toks[g.to + 1].fc
            /\ IF g.to = g.from THEN toks[g.to + 1].kind # "ParenOpen"
               ELSE /\ toks[g.to + 1].kind \notin {"Comma", "ParenClose"}
                    /\ e.ctx.expected = Some("',' or ')'")
                    /\ log[j - 1].fn \in ElementFns
                    /\ log[j - 1].to = g.to

C6_GroupedSeparatedShape ==
    \A j \in DOMAIN log :
        log[j].fn = "grouped_separated" =>
            IF log[j].res.tag = "Ok" THEN ListShape(j)
            ELSE (j = 1 \/ log[j - 1].res.tag = "Ok") => ListOwnError(j)

\* extern f ( a : Int , b : Int , ) has been parsed to two parameters
C6_Witness ==
    /\ Succeeded
    /\ Len(outcome.val.val.externs) = 1
    /\ Len(outcome.val.val.externs[1].parameters) = 2
    /\ Len(toks) = 12
    /\ toks[11].kind = "Comma"
    /\ \E j \in DOMAIN log : log[j].fn = "grouped_separated" /\ log[j].to = 12


(***************************************************************************)
(* C7: at a top-level item position, that is at the start of the input or  *)
(* right after the last item pushed, a token that is none of record,       *)
(* extern, gene, rule makes parse_file return UnexpectedToken at that      *)
(* token, while parsing "a top level item", without a start reference and  *)
(* with the expectation that names the four keywords.                      *)
(***************************************************************************)
ItemFns == {"Record", "Extern", "Gene", "Rule"}
ItemKeywords == {"Record", "Extern", "Gene", "Rule"}

\* The log indices of the top-level items pushed so far, in order.
Items == Ascending({i \in DOMAIN log : log[i].fn \in ItemFns})

\* The number of tokens the pushed items cover.
ItemsEnd == IF Items = <<>> THEN 0 ELSE log[Items[Len(Items)]].to

StrayTopLevelToken == Len(toks) > ItemsEnd /\ toks[ItemsEnd + 1].kind \notin ItemKeywords

IsTopLevelError(e, t) ==
    /\ e.kind = "UnexpectedToken"
    /\ e.fc = t.fc
    /\ e.ctx.while_parsing = "a top level item"
    /\ e.ctx.start = None
    /\ e.ctx.expected = Some("'record', 'gene', 'rule' or 'extern'")

C7_StrayTopLevelTokenIsRejected ==
    StrayTopLevelToken =>
        /\ raised # None => /\ raised.val.at = ItemsEnd
                            /\ IsTopLevelError(raised.val.err, toks[ItemsEnd + 1])
        /\ outcome # None => /\ Failed
                             /\ IsTopLevelError(outcome.val.err, toks[ItemsEnd + 1])

\* two items were parsed and the token after them was rejected
C7_Witness ==
    /\ StrayTopLevelToken
    /\ Len(Items) >= 2
    /\ Failed
    /\ outcome.val.err.fc = toks[ItemsEnd + 1].fc

(***************************************************************************)
(* C8: when parse_file succeeds the items pushed cover the whole token     *)
(* sequence one after the other, each starting at its keyword, and each    *)
(* of the four sequences of the File holds the items of its kind in that   *)
(* order, so the four lengths sum to the number of items; for the empty    *)
(* token sequence parse_file returns the File with four empty sequences.   *)
(***************************************************************************)
RECURSIVE ItemsOfKind(_, _)
ItemsOfKind(is, kind) ==
    IF is = <<>> THEN <<>>
    ELSE (IF log[is[1]].fn = kind THEN <<log[is[1]].res.val>> ELSE <<>>)
            \o ItemsOfKind(SubSeq(is, 2, Len(is)), kind)

ItemsCoverInput ==
    /\ ItemsEnd = Len(toks)
    /\ \A k \in 1..Len(Items) :
         /\ log[Items[k]].from = (IF k = 1 THEN 0 ELSE log[Items[k - 1]].to)
         /\ log[Items[k]].to > log[Items[k]].from
         /\ toks[log[Items[k]].from + 1].kind = log[Items[k]].fn

C8_FileHoldsItemsInSourceOrder ==
    /\ Succeeded =>
         LET f == outcome.val.val
         IN /\ ItemsCoverInput
            /\ f.records = ItemsOfKind(Items, "Record")
            /\ f.externs = ItemsOfKind(Items, "Extern")
            /\ f.genes = ItemsOfKind(Items, "Gene")
            /\ f.rules = ItemsOfKind(Items, "Rule")
            /\ Len(f.records) + Len(f.externs) + Len(f.genes) + Len(f.rules) = Len(Items)
    /\ (outcome # None /\ toks = <<>>) => outcome = Some(Ok(EmptyFile))

\* three items, the second of another kind than the first and the third
C8_Witness ==
    /\ Succeeded
    /\ Len(Items) = 3
    /\ log[Items[1]].fn = log[Items[3]].fn
    /\ log[Items[1]].fn # log[Items[2]].fn
    /\ log[Items[1]].res.val # log[Items[3]].res.val

(***************************************************************************)
(* C9: a product list that parsed is empty exactly when the token after    *)
(* '->' is 'nothing', and then that one token is all it consumed;          *)
(* otherwise it holds the products parsed, in order, with one '+' between  *)
(* each two, and it is not followed by a '+'.  A '+' that no product       *)
(* follows fails the parse.                                                *)
(***************************************************************************)
ProductsOf(j) ==
    Ascending({i \in 1..(j - 1) :
                 /\ log[i].fn = "parse_product"
                 /\ log[i].res.tag = "Ok"
                 /\ log[i].from >= log[j].from})

ProductListShape(j) ==
    LET g == log[j]
        ps == ProductsOf(j)
        n == Len(ps)
    IN /\ g.from >= 1 /\ toks[g.from].kind = "ArrowR"
       /\ g.res.val.vals = [k \in 1..n |-> log[ps[k]].res.val]
       /\ (g.res.val.vals = <<>>) <=> (toks[g.from + 1].kind = "Nothing")
       /\ IF toks[g.from + 1].kind = "Nothing" THEN g.to = g.from + 1
          ELSE /\ n >= 1
               /\ log[ps[1]].from = g.from
               /\ \A k \in 1..(n - 1) :
                    /\ toks[log[ps[k]].to + 1].kind = "OpPlus"
                    /\ log[ps[k + 1]].from = log[ps[k]].to + 1
               /\ g.to = log[ps[n]].to
               /\ Len(toks) > g.to => toks[g.to + 1].kind # "OpPlus"

\* a product that failed at its first token right after a '+'
AfterPlus(j) ==
    /\ log[j].fn = "parse_product"
    /\ log[j].res.tag = "Err"
    /\ log[j].from = log[j].to
    /\ log[j].from >= 1
    /\ toks[log[j].from].kind = "OpPlus"

C9_ProductListShape ==
    \A j \in DOMAIN log :
        /\ IsReturn(log[j], "parse_product_list") => ProductListShape(j)
        /\ AfterPlus(j) => (outcome # None => Failed /\ outcome.val.err = log[j].res.err)

\* rule ( ) -> a + b has been parsed to a rule with two products
C9_Witness ==
    /\ Succeeded
    /\ \E j \in DOMAIN log :
         /\ IsReturn(log[j], "parse_product_list")
         /\ Len(log[j].res.val.vals) = 2
         /\ toks[log[j].to - 1].kind = "OpPlus"
    /\ Len(outcome.val.val.rules) = 1
    /\ Len(outcome.val.val.rules[1].products) = 2

(***************************************************************************)
(* C10: a binding that parsed is one of three forms chosen by its first    *)
(* token: integer identifier, with attribute Quantity(integer);            *)
(* identifier ':' identifier, with attribute Name(first identifier) and    *)
(* the second as name; or one identifier not followed by ':', without      *)
(* attribute.  A quantity binding followed by ':' fails the binding list,  *)
(* and any other first token fails with UnexpectedToken expecting          *)
(* "a quantity or identifier".                                             *)
(***************************************************************************)
IdentifierOf(tok) == Identifier(tok.fc, tok.name)

BindingForm(e) ==
    LET f == e.from
        b == e.res.val
        lead == toks[f + 1]
    IN CASE lead.kind = "IntegerLiteral" ->
              /\ e.to = f + 2
              /\ toks[f + 2].kind = "Identifier"
              /\ b.attr = Some(Quantity(lead.fc, lead.int))
              /\ b.name = IdentifierOf(toks[f + 2])
         [] lead.kind = "Identifier" ->
              IF Len(toks) >= f + 2 /\ toks[f + 2].kind = "Colon"
              THEN /\ e.to = f + 3
                   /\ toks[f + 3].kind = "Identifier"
                   /\ b.attr = Some(Name(IdentifierOf(lead)))
                   /\ b.name = IdentifierOf(toks[f + 3])
              ELSE /\ e.to = f + 1
                   /\ b.attr = None
                   /\ b.name = IdentifierOf(lead)
         [] OTHER -> FALSE

BindingError(e) ==
    LET f == e.from
        err == e.res.err
    IN IF Len(toks) = f THEN err.kind = "UnexpectedEnd"
       ELSE CASE toks[f + 1].kind = "IntegerLiteral" ->
                   /\ e.to = f + 1
                   /\ Len(toks) > f + 1 => toks[f + 2].kind # "Identifier"
              [] toks[f + 1].kind = "Identifier" ->
                   /\ e.to = f + 2
                   /\ toks[f + 2].kind = "Colon"
                   /\ Len(toks) > f + 2 => toks[f + 3].kind # "Identifier"
              [] OTHER ->
                   /\ e.to = f
                   /\ err.kind = "UnexpectedToken"
                   /\ err.fc = toks[f + 1].fc
                   /\ err.ctx.expected = Some("a quantity or identifier")

\* a quantity binding with a ':' right after it
QuantityThenColon(e) ==
    /\ IsReturn(e, "parse_binding")
    /\ toks[e.from + 1].kind = "IntegerLiteral"
    /\ Len(toks) > e.to
    /\ toks[e.to + 1].kind = "Colon"

C10_BindingForms ==
    \A j \in DOMAIN log :
        log[j].fn = "parse_binding" =>
            /\ IF log[j].res.tag = "Ok" THEN BindingForm(log[j]) ELSE BindingError(log[j])
            /\ QuantityThenColon(log[j]) =>
                 /\ ~Succeeded
                 /\ raised # None =>
                      /\ raised.val.err.kind = "UnexpectedToken"
                      /\ raised.val.err.fc = toks[log[j].to + 1].fc
                      /\ raised.val.err.ctx.expected = Some("',' or ')'")

\* one binding of each form has been parsed, and the ':' after the quantity
\* binding has been rejected
C10_Witness ==
    /\ Failed
    /\ \E i, j, k \in DOMAIN log :
        /\ IsReturn(log[i], "parse_binding") /\ log[i].res.val.attr = None
        /\ IsReturn(log[k], "parse_binding") /\ log[k].res.val.attr # None
        /\ log[k].res.val.attr.val.tag = "Name"
        /\ log[k].res.val.attr.val.id # log[k].res.val.name
        /\ QuantityThenColon(log[j])
        /\ log[j].res.val.attr.val.tag = "Quantity"
        /\ outcome.val.err.fc = toks[log[j].to + 1].fc


(***************************************************************************)
(* C11: the parenthesized list is optional after a record's name and a     *)
(* product's name and required after an extern's name and a call           *)
(* statement's name.  record name not followed by '(' is a Record without  *)
(* fields that spans the keyword and the name and consumed those two       *)
(* tokens; extern name followed by another token than '(' fails with       *)
(* UnexpectedToken expecting '(' , and followed by the end of the input    *)
(* with UnexpectedEnd.                                                     *)
(***************************************************************************)
\* keyword name at the item position f, and then no '('
NamedItemWithoutList(f, keyword) ==
    /\ Len(toks) >= f + 2
    /\ toks[f + 1].kind = keyword
    /\ toks[f + 2].kind = "Identifier"
    /\ IF Len(toks) = f + 2 THEN ended ELSE toks[f + 3].kind # "ParenOpen"

RecordForm(e) ==
    LET f == e.from
        r == e.res.val
    IN /\ toks[f + 1].kind = "Record"
       /\ toks[f + 2].kind = "Identifier"
       /\ r.name = IdentifierOf(toks[f + 2])
       /\ IF NamedItemWithoutList(f, "Record")
          THEN /\ e.to = f + 2
               /\ r.fields = <<>>
               /\ r.fc = merge(toks[f + 1].fc, toks[f + 2].fc)
          ELSE /\ e.to >= f + 4
               /\ toks[f + 3].kind = "ParenOpen"
               /\ toks[e.to].kind = "ParenClose"

ProductForm(e) ==
    LET n == IF toks[e.from + 1].kind = "IntegerLiteral" THEN e.from + 2 ELSE e.from + 1
    IN /\ e.res.val.name = IdentifierOf(toks[n])
       /\ IF Len(toks) = n \/ toks[n + 1].kind # "ParenOpen"
          THEN e.to = n /\ e.res.val.fields = <<>>
          ELSE e.to >= n + 2 /\ toks[e.to].kind = "ParenClose"

\* grouped_separated failed at its opening token right after the name of an
\* extern or of a call statement
RequiredListMissing(e) ==
    /\ e.fn = "grouped_separated"
    /\ e.res.tag = "Err"
    /\ e.from = e.to
    /\ e.from >= 2
    /\ toks[e.from].kind = "Identifier"
    /\ toks[e.from - 1].kind \in {"Extern", "Call"}

MissingListError(err, p) ==
    IF Len(toks) = p THEN err.kind = "UnexpectedEnd"
    ELSE /\ err.kind = "UnexpectedToken"
         /\ err.fc = toks[p + 1].fc
         /\ err.ctx.expected = Some("'('")

C11_OptionalAndRequiredLists ==
    /\ \A j \in DOMAIN log :
         /\ IsReturn(log[j], "Record") => RecordForm(log[j])
         /\ IsReturn(log[j], "parse_product") => ProductForm(log[j])
         /\ IsReturn(log[j], "Extern") => toks[log[j].from + 3].kind = "ParenOpen"
         /\ IsReturn(log[j], "parse_gene_statement") /\ toks[log[j].from + 1].kind = "Call"
              => toks[log[j].from + 3].kind = "ParenOpen"
         /\ RequiredListMissing(log[j]) =>
              /\ Len(toks) > log[j].to => toks[log[j].to + 1].kind # "ParenOpen"
              /\ MissingListError(log[j].res.err, log[j].to)
    /\ ~NamedItemWithoutList(ItemsEnd, "Record")
    /\ NamedItemWithoutList(ItemsEnd, "Extern") =>
         /\ raised # None
         /\ raised.val.at = ItemsEnd + 2
         /\ MissingListError(raised.val.err, ItemsEnd + 2)
         /\ outcome # None => Failed /\ outcome.val.err = raised.val.err

\* record a extern b x : the record was pushed without fields and the token
\* after the extern's name was rejected
C11_Witness ==
    /\ Failed
    /\ outcome.val.err.kind = "UnexpectedToken"
    /\ NamedItemWithoutList(ItemsEnd, "Extern")
    /\ Len(toks) = ItemsEnd + 3
    /\ Len(Items) = 1
    /\ log[Items[1]].fn = "Record"
    /\ log[Items[1]].to = 2
    /\ log[Items[1]].res.val.fields = <<>>


(***************************************************************************)
(* C12: a gene that parsed has a guard exactly when the token after the    *)
(* ')' of its factor list is 'when', and its body holds the statements     *)
(* parsed between '{' and '}', one per parse_gene_statement call, in       *)
(* order, each starting where the one before ended: no token separates     *)
(* two statements.  gene ( ) { } has no factor, no guard and no statement. *)
(***************************************************************************)
\* The log index of the Ok return of fn that started at from, before index j.
HasReturn(fn, from, j) ==
    \E i \in 1..(j - 1) : IsReturn(log[i], fn) /\ log[i].from = from
ReturnOf(fn, from, j) ==
    CHOOSE i \in 1..(j - 1) : IsReturn(log[i], fn) /\ log[i].from = from

\* The log indices of the statements the body logged at b parsed, in order.
StatementsOf(b) ==
    Ascending({i \in 1..(b - 1) :
                 /\ IsReturn(log[i], "parse_gene_statement")
                 /\ log[i].from > log[b].from})

BodyShape(b, body) ==
    LET g == log[b]
        ss == StatementsOf(b)
        n == Len(ss)
    IN /\ toks[g.from + 1].kind = "BraceOpen"
       /\ toks[g.to].kind = "BraceClose"
       /\ body = [k \in 1..n |-> log[ss[k]].res.val]
       /\ g.res.val.vals = body
       /\ IF n = 0 THEN g.to = g.from + 2
          ELSE /\ log[ss[1]].from = g.from + 1
               /\ \A k \in 1..(n - 1) : log[ss[k + 1]].from = log[ss[k]].to
               /\ g.to = log[ss[n]].to + 1

GeneForm(j) ==
    LET e == log[j]
        f == e.from
        r == e.res.val
    IN /\ toks[f + 1].kind = "Gene"
       /\ HasReturn("grouped_separated", f + 1, j)
       /\ LET l == log[ReturnOf("grouped_separated", f + 1, j)]
              c == l.to
          IN /\ r.factors = l.res.val.vals
             /\ (r.when # None) <=> (toks[c + 1].kind = "When")
             /\ IF toks[c + 1].kind = "When"
                THEN /\ HasReturn("parse_expression", c + 1, j)
                     /\ LET x == log[ReturnOf("parse_expression", c + 1, j)]
                        IN /\ r.when = Some(x.res.val)
                           /\ HasReturn("grouped", x.to, j)
                           /\ BodyShape(ReturnOf("grouped", x.to, j), r.body)
                           /\ log[ReturnOf("grouped", x.to, j)].to = e.to
                ELSE /\ HasReturn("grouped", c, j)
                     /\ BodyShape(ReturnOf("grouped", c, j), r.body)
                     /\ log[ReturnOf("grouped", c, j)].to = e.to

\* gene ( ) { } at the tokens after f
EmptyGene(f) ==
    /\ Len(toks) >= f + 5
    /\ toks[f + 1].kind = "Gene"
    /\ toks[f + 2].kind = "ParenOpen"
    /\ toks[f + 3].kind = "ParenClose"
    /\ toks[f + 4].kind = "BraceOpen"
    /\ toks[f + 5].kind = "BraceClose"

C12_GeneGuardAndBody ==
    /\ \A j \in DOMAIN log :
         IsReturn(log[j], "Gene") =>
             /\ GeneForm(j)
             /\ EmptyGene(log[j].from) =>
                  /\ log[j].to = log[j].from + 5
                  /\ log[j].res.val.factors = <<>>
                  /\ log[j].res.val.when = None
                  /\ log[j].res.val.body = <<>>
    /\ EmptyGene(ItemsEnd) => raised = None /\ outcome = None /\ pos <= ItemsEnd + 5

\* gene ( x ) when a { call f ( ) } has been parsed to a gene with one
\* factor, the guard Variable(a) and one call statement without arguments
C12_Witness ==
    /\ Succeeded
    /\ Len(toks) = 12
    /\ toks[6].kind = "Identifier"
    /\ Len(outcome.val.val.genes) = 1
    /\ LET g == outcome.val.val.genes[1]
       IN /\ Len(g.factors) = 1
          /\ g.when = Some(Variable(IdentifierOf(toks[6])))
          /\ Len(g.body) = 1
          /\ g.body[1].node = "Call"
          /\ g.body[1].arguments = <<>>


(***************************************************************************)
(* C13: parse_file returns for every token sequence.  The cursor only      *)
(* moves forward, by one token at a time, the tokens pulled are never      *)
(* changed, at most one token is pulled ahead of the cursor, a step at the *)
(* head of a loop consumes a token, calls the element parser or leaves the *)
(* loop, and every function that returns Ok has consumed a token (but      *)
(* parse_file on the empty input), so no loop iterates without progress.   *)
(***************************************************************************)
LoopHeads ==
    {<<"parse_file", "loop">>, <<"grouped", "loop">>, <<"grouped", "elem">>,
     <<"grouped_separated", "loop">>, <<"grouped_separated", "elem">>,
     <<"separated", "elem">>, <<"parse_expression", "first">>, <<"parse_expression", "rhs">>,
     <<"parse_expression_atom", "postfix">>, <<"parse_expression_atom", "negated">>}

AtLoopHead == Running /\ <<Top.fn, Top.pc>> \in LoopHeads

CursorStep ==
    /\ pos' \in {pos, pos + 1}
    /\ Len(toks') \in {Len(toks), Len(toks) + 1}
    /\ SubSeq(toks', 1, Len(toks)) = toks
    /\ ended => ended' /\ toks' = toks
    /\ AtLoopHead => \/ pos' = pos + 1
                     \/ Len(stack') # Len(stack)
                     \/ outcome' # None

LookaheadOfOne ==
    /\ pos <= Len(toks)
    /\ Len(toks) <= pos + 1
    /\ Len(toks) <= lexer.len
    /\ \A i \in DOMAIN toks : toks[i] = Token(file, i, toks[i].kind)

ReturnsConsume ==
    \A i \in DOMAIN log :
        /\ log[i].from <= log[i].to
        /\ log[i].to <= pos
        /\ i > 1 => log[i - 1].to <= log[i].to
        /\ log[i].res.tag = "Ok" /\ log[i].fn # "parse_file" => log[i].from < log[i].to

C13_ParseTerminates ==
    /\ [][CursorStep]_stepped
    /\ [](LookaheadOfOne /\ ReturnsConsume)
    /\ <>(outcome # None)

\* parse_file has returned after a bracketed list and an infix loop that went
\* round twice
C13_Witness ==
    /\ outcome # None
    /\ stack = <<>>
    /\ pos = Len(toks)
    /\ \E i, j \in DOMAIN log :
         /\ IsReturn(log[i], "parse_expression") /\ log[i].to >= log[i].from + 5
         /\ IsReturn(log[j], "grouped_separated")


(***************************************************************************)
(* C14: an atom is a base followed by a chain of '.' field accesses that   *)
(* nests to the left (a.b.c is FieldAccess(FieldAccess(a, b), c)).  The    *)
(* base of ( e ) is the expression e itself, so a following .f wraps e.    *)
(* The base of - x is PrefixOp(Neg, x) for the whole atom x that follows,  *)
(* with the field chain of x inside the operand: -a.b is                   *)
(* PrefixOp(Neg, FieldAccess(a, b)) and -a + b is                          *)
(* InfixOp(Add, [PrefixOp(Neg, a), b]).                                    *)
(***************************************************************************)
\* Tokens from+1 .. to are ('.' identifier)*.
IsFieldChain(from, to) ==
    /\ to >= from
    /\ (to - from) % 2 = 0
    /\ \A i \in (from + 1)..to :
         toks[i].kind = (IF (i - from) % 2 = 1 THEN "Dot" ELSE "Identifier")

RECURSIVE FieldChain(_, _, _)
FieldChain(base, from, to) ==
    IF to <= from THEN base
    ELSE [tag |-> "FieldAccess", base |-> FieldChain(base, from, to - 2),
          field_name |-> IdentifierOf(toks[to])]

Negated(tok, e) == [tag |-> "PrefixOp", op |-> [fc |-> tok.fc, op |-> "Neg"], expr |-> e]

AtomForm(j) ==
    LET e == log[j]
        f == e.from
        lead == toks[f + 1]
    IN /\ Len(toks) > e.to => toks[e.to + 1].kind # "Dot"
       /\ CASE lead.kind = "Identifier" ->
                 /\ IsFieldChain(f + 1, e.to)
                 /\ e.res.val = FieldChain(AtomOf(lead), f + 1, e.to)
            [] lead.kind = "ParenOpen" ->
                 /\ HasReturn("parse_expression", f + 1, j)
                 /\ LET x == log[ReturnOf("parse_expression", f + 1, j)]
                    IN /\ toks[x.to + 1].kind = "ParenClose"
                       /\ IsFieldChain(x.to + 1, e.to)
                       /\ e.res.val = FieldChain(x.res.val, x.to + 1, e.to)
            [] lead.kind = "OpMinus" ->
                 /\ HasReturn("parse_expression_atom", f + 1, j)
                 /\ LET x == log[ReturnOf("parse_expression_atom", f + 1, j)]
                    IN /\ x.to = e.to
                       /\ e.res.val = Negated(lead, x.res.val)
            [] OTHER -> TRUE

\* - a + b
NegatedSum(e) ==
    /\ e.to = e.from + 4
    /\ toks[e.from + 1].kind = "OpMinus"
    /\ toks[e.from + 2].kind = "Identifier"
    /\ toks[e.from + 3].kind = "OpPlus"
    /\ toks[e.from + 4].kind = "Identifier"

C14_AtomForms ==
    \A j \in DOMAIN log :
        /\ IsReturn(log[j], "parse_expression_atom") => AtomForm(j)
        /\ IsReturn(log[j], "parse_expression") /\ NegatedSum(log[j]) =>
             log[j].res.val =
                 [tag |-> "InfixOp", op |-> [fc |-> toks[log[j].from + 3].fc, op |-> "Add"],
                  args |-> <<Negated(toks[log[j].from + 1], AtomOf(toks[log[j].from + 2])),
                             AtomOf(toks[log[j].from + 4])>>]

\* - ( a ) . b . c has been parsed to
\* PrefixOp(Neg, FieldAccess(FieldAccess(a, b), c))
C14_Witness ==
    \E j \in DOMAIN log :
        /\ IsReturn(log[j], "parse_expression_atom")
        /\ log[j].to = log[j].from + 8
        /\ LET f == log[j].from
           IN /\ <<toks[f + 1].kind, toks[f + 2].kind, toks[f + 3].kind, toks[f + 4].kind>> =
                     <<"OpMinus", "ParenOpen", "Identifier", "ParenClose">>
              /\ IsFieldChain(f + 4, f + 8)
              /\ log[j].res.val =
                     Negated(toks[f + 1],
                         [tag |-> "FieldAccess",
                          base |-> [tag |-> "FieldAccess", base |-> AtomOf(toks[f + 3]),
                                    field_name |-> IdentifierOf(toks[f + 6])],
                          field_name |-> IdentifierOf(toks[f + 8])])


(***************************************************************************)
(* C15: an UnexpectedToken error carries the span of the first token not   *)
(* yet consumed.  The offending token was pulled by a peek and is the only *)
(* token ahead of the cursor, so the number of tokens consumed when the    *)
(* error is built, and when parse_file returns it, is the number of tokens *)
(* in front of the offending one.                                          *)
(***************************************************************************)
C15_UnexpectedTokenIsAtTheCursor ==
    /\ raised # None /\ raised.val.err.kind = "UnexpectedToken" =>
         /\ Len(toks) = raised.val.at + 1
         /\ raised.val.err.fc = toks[raised.val.at + 1].fc
         /\ raised.val.err.fc = FC(file, raised.val.at + 1, raised.val.at + 1)
         /\ pos = raised.val.at
    /\ Failed /\ outcome.val.err.kind = "UnexpectedToken" =>
         /\ Len(toks) = pos + 1
         /\ outcome.val.err.fc = toks[pos + 1].fc

\* parse_file has returned UnexpectedToken at the seventh token from inside
\* three nested functions
C15_Witness ==
    /\ Failed
    /\ outcome.val.err.kind = "UnexpectedToken"
    /\ pos = 6
    /\ outcome.val.err.fc = toks[7].fc
    /\ Cardinality({i \in DOMAIN log : log[i].res.tag = "Err"}) >= 4

=============================================================================
